---- MODULE Spec2Model ----
(***************************************************************************)
(* TradingDataServer (src/main.py): a directory of JSON files is loaded    *)
(* once into the process-wide table TRADES_DF; GET /trades filters it by   *)
(* date range and symbol.                                                  *)
(*                                                                         *)
(* Python values are tagged pairs <<type, payload>>:                       *)
(*   <<"None", 0>>  <<"str", s>>  <<"int", n>>  <<"float", tenths>>        *)
(*   <<"Timestamp", yyyymmdd>>  <<"NaT", 0>>                               *)
(* A float is kept in tenths (1.1 is <<"float", 11>>), a Timestamp as the  *)
(* number yyyymmdd, whose integer order is the calendar order.             *)
(***************************************************************************)
EXTENDS Integers, Sequences, FiniteSets, TLC

VARIABLES
    directory,        \* os.listdir(directory_path): the entries, in enumeration order
    pc,               \* "loading" while load_all_trades runs, then "serving"
    idx,              \* number of directory entries the loop of load_all_trades has passed
    file_names,       \* load_all_trades: file_names
    all_trades,       \* load_all_trades: all_trades
    TRADES_DF,        \* the module-level table
    request,          \* the arguments of the last GET /trades
    response,         \* what get_trades did with it
    call,             \* the arguments of a direct call of filter_trades
    filtered_trades,  \* its outcome
    arr,              \* the argument of a direct call of from_array
    trade             \* its outcome

vars == <<directory, pc, idx, file_names, all_trades, TRADES_DF, request, response,
          call, filtered_trades, arr, trade>>

---------------------------------------------------------------------------
(* Bounds *)

MaxFiles == 2        \* entries in the directory
MaxRows == 2         \* rows of datatable.data in one file (loading)
MaxTable == 4        \* records of a table given directly to filter_trades
MaxOdd == 2          \* positions of a row given to from_array that depart from the well-formed row

---------------------------------------------------------------------------
(* Python values *)

None == <<"None", 0>>
NaT == <<"NaT", 0>>
Str(s) == <<"str", s>>
PyInt(n) == <<"int", n>>
PyFloat(t) == <<"float", t>>
Timestamp(d) == <<"Timestamp", d>>

\* The texts that an integer literal parser accepts, with their values.
IntText == ("7" :> 7) @@ ("500" :> 500)

\* The texts that a float literal parser accepts, in tenths.
FloatText == ("7" :> 70) @@ ("500" :> 5000) @@ ("1.5" :> 15)

\* The texts of the form %Y-%m-%d that name a calendar date.
DateText == ("2023-01-01" :> 20230101) @@ ("2023-01-02" :> 20230102)
            @@ ("2023-01-03" :> 20230103)

\* str(x) for the values a JSON symbol takes here: a string or null.
str(x) == IF x[1] = "None" THEN Str("None") ELSE x

\* int(x) raises ValueError unless x is a number or the text of an integer.
int_raises(x) == ~ (x[1] \in {"int", "float"} \/ (x[1] = "str" /\ x[2] \in DOMAIN IntText))

int(x) ==
    CASE x[1] = "int" -> x
      [] x[1] = "float" -> PyInt(x[2] \div 10)
      [] OTHER -> PyInt(IntText[x[2]])

\* float(x) raises ValueError unless x is a number or the text of a number.
float_raises(x) == ~ (x[1] \in {"int", "float"} \/ (x[1] = "str" /\ x[2] \in DOMAIN FloatText))

float(x) ==
    CASE x[1] = "float" -> x
      [] x[1] = "int" -> PyFloat(x[2] * 10)
      [] OTHER -> PyFloat(FloatText[x[2]])

\* pd.to_datetime(x, format='%Y-%m-%d', errors='coerce'): None stays None, a
\* date text becomes a Timestamp, anything else is coerced to NaT.
to_datetime_coerce(x) ==
    CASE x[1] = "None" -> None
      [] x[1] = "str" /\ x[2] \in DOMAIN DateText -> Timestamp(DateText[x[2]])
      [] OTHER -> NaT

\* datetime.strptime(s, '%Y-%m-%d') and pd.to_datetime(s, format='%Y-%m-%d')
\* raise ValueError on a text that is no date.
strptime_raises(s) == s \notin DOMAIN DateText

to_datetime(s) == Timestamp(DateText[s])

---------------------------------------------------------------------------
(* from_array *)

columns ==
    {"symbol", "date", "hour", "openbid", "highbid", "lowbid",
     "closebid", "openask", "highask", "lowask", "closeask", "totalticks"}

\* Position (1-based) of each field in the row.
IntPositions == {3, 12}
FloatPositions == 4..11

defaults == [c \in columns |-> None]

\* A conversion in one of the positions 3..12 raises: the element is present,
\* is not None, and int() or float() rejects it.
from_array_raises(a) ==
    \/ \E p \in IntPositions : Len(a) >= p /\ a[p] # None /\ int_raises(a[p])
    \/ \E p \in FloatPositions : Len(a) >= p /\ a[p] # None /\ float_raises(a[p])

IntField(a, p, c) == IF Len(a) >= p /\ a[p] # None THEN int(a[p]) ELSE defaults[c]
FloatField(a, p, c) == IF Len(a) >= p /\ a[p] # None THEN float(a[p]) ELSE defaults[c]

\* The dictionary from_array returns when no conversion raises.
from_array_value(a) ==
    [symbol     |-> IF Len(a) >= 1 THEN str(a[1]) ELSE defaults["symbol"],
     date       |-> IF Len(a) >= 2 THEN to_datetime_coerce(a[2]) ELSE defaults["date"],
     hour       |-> IntField(a, 3, "hour"),
     openbid    |-> FloatField(a, 4, "openbid"),
     highbid    |-> FloatField(a, 5, "highbid"),
     lowbid     |-> FloatField(a, 6, "lowbid"),
     closebid   |-> FloatField(a, 7, "closebid"),
     openask    |-> FloatField(a, 8, "openask"),
     highask    |-> FloatField(a, 9, "highask"),
     lowask     |-> FloatField(a, 10, "lowask"),
     closeask   |-> FloatField(a, 11, "closeask"),
     totalticks |-> IntField(a, 12, "totalticks")]

\* Outcome of from_array: the exception raised ("" for none) and the value.
from_array(a) ==
    IF from_array_raises(a)
    THEN [raised |-> "ValueError", value |-> defaults]
    ELSE [raised |-> "", value |-> from_array_value(a)]

---------------------------------------------------------------------------
(* Directory entries *)

\* A well-formed row of 12 elements.
RowFull ==
    <<Str("EURUSD"), Str("2023-01-01"), PyInt(10), PyFloat(11), PyFloat(12), PyFloat(10),
      PyFloat(11), PyFloat(11), PyFloat(12), PyFloat(10), PyFloat(11), PyInt(500)>>

\* 7 of the 12 elements.
RowShort ==
    <<Str("GBPUSD"), Str("2023-01-02"), PyInt(9), PyFloat(11), PyFloat(12), PyFloat(10),
      PyFloat(11)>>

\* A null symbol and a date text that is no date.
RowNullSymbol == <<None, Str("bad-date"), None>>

\* No date element at all.
RowNoDate == <<Str("EURUSD")>>

\* A third date, and a float given as an int and as a text.
RowLate == <<Str("EURUSD"), Str("2023-01-03"), PyFloat(95), PyInt(1), Str("1.5")>>

\* "abc" where a float is expected.
RowBad == <<Str("GBPUSD"), Str("2023-01-02"), PyInt(9), Str("abc"), PyFloat(12)>>

\* All sequences over S of length at most n.
SeqUpTo(S, n) == UNION {[1..k -> S] : k \in 0..n}

\* A directory entry: whether its name ends in ".json", and what the file holds:
\* text that is no JSON ("bad_json"), JSON without datatable.data
\* ("no_datatable"), or JSON whose datatable.data is the rows `data`.
DataFile(rows) == [json |-> TRUE, kind |-> "data", data |-> rows]
BadJsonFile == [json |-> TRUE, kind |-> "bad_json", data |-> <<>>]
NoDatatableFile == [json |-> TRUE, kind |-> "no_datatable", data |-> <<>>]
OtherFile == [json |-> FALSE, kind |-> "data", data |-> <<RowFull>>]

Entries(Rows, n) ==
    {DataFile(rows) : rows \in SeqUpTo(Rows, n)} \cup {BadJsonFile, NoDatatableFile, OtherFile}

---------------------------------------------------------------------------
(* load_trades_from_file, load_all_trades *)

\* pd.DataFrame(): no columns, no rows.
EmptyDataFrame == [columns |-> {}, rows |-> <<>>]

\* A loader that drops the rows from_array rejects and keeps the others.
load_trades_skipping_bad_rows(f) ==
    CASE f.kind = "bad_json" -> [raised |-> "JSONDecodeError", df |-> EmptyDataFrame]
      [] f.kind = "no_datatable" -> [raised |-> "KeyError", df |-> EmptyDataFrame]
      [] OTHER ->
            [raised |-> "",
             df |-> [columns |-> columns,
                     rows |-> LET good == SelectSeq(f.data, LAMBDA a : from_array(a).raised = "")
                              IN  [j \in 1..Len(good) |-> from_array(good[j]).value]]]

\* Outcome of load_trades_from_file: the exception raised ("" for none) and the
\* DataFrame. One row that raises makes the list comprehension, and so the call, raise.
load_trades_from_file(f) ==
    CASE f.kind = "bad_json" -> [raised |-> "JSONDecodeError", df |-> EmptyDataFrame]
      [] f.kind = "no_datatable" -> [raised |-> "KeyError", df |-> EmptyDataFrame]
      [] \E j \in 1..Len(f.data) : from_array(f.data[j]).raised # "" ->
            [raised |-> "ValueError", df |-> EmptyDataFrame]
      [] OTHER ->
            [raised |-> "",
             df |-> [columns |-> columns,
                     rows |-> [j \in 1..Len(f.data) |-> from_array(f.data[j]).value]]]

\* pd.concat([a, b], ignore_index=True)
concat(a, b) == [columns |-> a.columns \cup b.columns, rows |-> a.rows \o b.rows]

\* One pass of the loop over an entry whose name does not end in ".json".
SkipEntry ==
    /\ pc = "loading"
    /\ idx < Len(directory)
    /\ ~ directory[idx + 1].json
    /\ idx' = idx + 1
    /\ UNCHANGED <<directory, pc, file_names, all_trades, TRADES_DF, request, response,
                   call, filtered_trades, arr, trade>>

\* One pass of the loop over a ".json" entry that loads.
LoadFile ==
    /\ pc = "loading"
    /\ idx < Len(directory)
    /\ directory[idx + 1].json
    /\ load_trades_from_file(directory[idx + 1]).raised = ""
    /\ file_names' = Append(file_names, idx + 1)
    /\ all_trades' = concat(all_trades, load_trades_from_file(directory[idx + 1]).df)
    /\ idx' = idx + 1
    /\ UNCHANGED <<directory, pc, TRADES_DF, request, response,
                   call, filtered_trades, arr, trade>>

\* A loop that stops at the first file whose load raises.
LoadFileErrorAborting ==
    /\ pc = "loading"
    /\ idx < Len(directory)
    /\ directory[idx + 1].json
    /\ load_trades_from_file(directory[idx + 1]).raised # ""
    /\ file_names' = Append(file_names, idx + 1)
    /\ idx' = idx + 1
    /\ TRADES_DF' = all_trades
    /\ pc' = "serving"
    /\ UNCHANGED <<directory, all_trades, request, response,
                   call, filtered_trades, arr, trade>>

\* One pass of the loop over a ".json" entry whose load raises: the except
\* clause prints the error and the loop goes on.
LoadFileError ==
    /\ pc = "loading"
    /\ idx < Len(directory)
    /\ directory[idx + 1].json
    /\ load_trades_from_file(directory[idx + 1]).raised # ""
    /\ file_names' = Append(file_names, idx + 1)
    /\ idx' = idx + 1
    /\ UNCHANGED <<directory, pc, all_trades, TRADES_DF, request, response,
                   call, filtered_trades, arr, trade>>

\* The loop is over: load_all_trades returns all_trades, bound to TRADES_DF.
FinishLoad ==
    /\ pc = "loading"
    /\ idx = Len(directory)
    /\ TRADES_DF' = all_trades
    /\ pc' = "serving"
    /\ UNCHANGED <<directory, idx, file_names, all_trades, request, response,
                   call, filtered_trades, arr, trade>>

---------------------------------------------------------------------------
(* filter_trades *)

\* trades['date'] >= start_date, elementwise: a null date (None, NaT) compares False.
date_ge(d, t) == d[1] = "Timestamp" /\ d[2] >= t[2]

\* trades['date'] <= end_date, elementwise.
date_le(d, t) == d[1] = "Timestamp" /\ d[2] <= t[2]

\* `if symbol:` is false for None and for the empty string.
truthy(x) == x[1] = "str" /\ x[2] # ""

\* A comparison in which a null date passes.
in_range_or_null(r, s, e) ==
    r.date[1] # "Timestamp" \/ (date_ge(r.date, to_datetime(s)) /\ date_le(r.date, to_datetime(e)))

\* trades[(trades['date'] >= start_date) & (trades['date'] <= end_date)], per record.
in_range(r, s, e) == date_ge(r.date, to_datetime(s)) /\ date_le(r.date, to_datetime(e))

RECURSIVE Reverse(_)
Reverse(s) == IF s = <<>> THEN <<>> ELSE Append(Reverse(Tail(s)), Head(s))

\* A filter that returns the newest rows first.
FilterRowsNewestFirst(rows, s, e, sym) ==
    LET ranged == SelectSeq(rows, LAMBDA r : in_range(r, s, e))
    IN  Reverse(IF truthy(sym) THEN SelectSeq(ranged, LAMBDA r : r.symbol = sym) ELSE ranged)

\* The two boolean-mask selections of filter_trades.
FilterRows(rows, s, e, sym) ==
    LET ranged == SelectSeq(rows, LAMBDA r : in_range(r, s, e))
    IN  IF truthy(sym) THEN SelectSeq(ranged, LAMBDA r : r.symbol = sym) ELSE ranged

\* Outcome of filter_trades: the exception raised ("" for none) and the rows
\* of the DataFrame returned. trades['date'] raises KeyError on a DataFrame
\* that has no such column.
filter_trades(trades, start_date, end_date, sym) ==
    CASE strptime_raises(start_date) \/ strptime_raises(end_date) ->
            [raised |-> "ValueError", rows |-> <<>>]
      [] "date" \notin trades.columns -> [raised |-> "KeyError", rows |-> <<>>]
      [] OTHER -> [raised |-> "", rows |-> FilterRows(trades.rows, start_date, end_date, sym)]

---------------------------------------------------------------------------
(* get_trades *)

API_KEY == Str("Ee-osjmRSwyXkPA3QBFe")

\* What a call of the handler ends in:
\*   outcome      "HTTPException", "return", or "raise" when another exception leaves the handler
\*   status_code  of the HTTPException, 200 for a return; an exception that
\*                leaves the handler is answered 500 by the framework
\*   detail       <<message, cause>>
\*   escaped      the type of the exception that left the handler, "" for none
\*   body         the records returned
\*   filtered     whether filter_trades was called
Outcome(o, st, msg, cause, esc, body, called) ==
    [outcome |-> o, status_code |-> st, detail |-> <<msg, cause>>, escaped |-> esc,
     body |-> body, filtered |-> called]

NoResponse == Outcome("none", 0, "", "", "", <<>>, FALSE)
NoRequest == [startDate |-> "", endDate |-> "", symbol |-> None, api_key |-> None]

\* The checks in the other order: dates first, then the key.
get_trades_dates_first(table, req) ==
    CASE strptime_raises(req.startDate) \/ strptime_raises(req.endDate) ->
            Outcome("HTTPException", 400, "Invalid date format. Expected 'YYYY-MM-DD'", "",
                    "", <<>>, FALSE)
      [] req.api_key # API_KEY ->
            Outcome("HTTPException", 403, "Invalid API key", "", "", <<>>, FALSE)
      [] OTHER ->
            LET f == filter_trades(table, req.startDate, req.endDate, req.symbol)
            IN  IF f.raised # ""
                THEN Outcome("raise", 500, "Internal Server Error", "", f.raised, <<>>, TRUE)
                ELSE Outcome("return", 200, "", "", "", f.rows, TRUE)

get_trades(table, req) ==
    CASE req.api_key # API_KEY ->
            Outcome("HTTPException", 403, "Invalid API key", "", "", <<>>, FALSE)
      [] strptime_raises(req.startDate) \/ strptime_raises(req.endDate) ->
            Outcome("HTTPException", 400, "Invalid date format. Expected 'YYYY-MM-DD'", "",
                    "", <<>>, FALSE)
      [] OTHER ->
            LET f == filter_trades(table, req.startDate, req.endDate, req.symbol)
            IN  IF f.raised # ""
                THEN Outcome("raise", 500, "Internal Server Error", "", f.raised, <<>>, TRUE)
                ELSE Outcome("return", 200, "", "", "", f.rows, TRUE)

ApiKeys == {API_KEY, Str("wrong-key"), None}
DateParams == {"2023-01-01", "2023-01-02", "bad-date"}
SymbolParams == {None, Str(""), Str("EURUSD"), Str("XAUUSD")}

Requests ==
    [startDate : DateParams, endDate : DateParams, symbol : SymbolParams, api_key : ApiKeys]

\* A handler that keeps the filtered rows as the table.
GetTradesStoring ==
    /\ pc = "serving"
    /\ \E req \in Requests :
          /\ request' = req
          /\ response' = get_trades(TRADES_DF, req)
          /\ TRADES_DF' = IF response'.outcome = "return"
                          THEN [TRADES_DF EXCEPT !.rows = response'.body]
                          ELSE TRADES_DF
    /\ UNCHANGED <<directory, pc, idx, file_names, all_trades,
                   call, filtered_trades, arr, trade>>

\* One GET /trades, served from TRADES_DF.
GetTrades ==
    /\ pc = "serving"
    /\ \E req \in Requests :
          /\ request' = req
          /\ response' = get_trades(TRADES_DF, req)
    /\ UNCHANGED <<directory, pc, idx, file_names, all_trades, TRADES_DF,
                   call, filtered_trades, arr, trade>>

---------------------------------------------------------------------------
(* The server: startup load, then requests *)

\* The entries of the directories that are loaded and then served.
ServedEntries ==
    {DataFile(<<>>), DataFile(<<RowFull>>), DataFile(<<RowShort, RowFull>>),
     BadJsonFile, NoDatatableFile, OtherFile}

NoCall == [trades |-> EmptyDataFrame, start_date |-> "", end_date |-> "", symbol |-> None]
NoFiltered == [raised |-> "none", rows |-> <<>>]
NoTrade == [raised |-> "none", value |-> defaults]

Init ==
    /\ directory \in SeqUpTo(ServedEntries, MaxFiles)
    /\ pc = "loading"
    /\ idx = 0
    /\ file_names = <<>>
    /\ all_trades = EmptyDataFrame
    /\ TRADES_DF = EmptyDataFrame
    /\ request = NoRequest
    /\ response = NoResponse
    /\ call = NoCall
    /\ filtered_trades = NoFiltered
    /\ arr = <<>>
    /\ trade = NoTrade

Next == SkipEntry \/ LoadFile \/ LoadFileError \/ FinishLoad \/ GetTrades

Spec == Init /\ [][Next]_vars

---------------------------------------------------------------------------
(* The startup load alone, over larger files *)

LoadRows == {RowFull, RowShort, RowBad}

InitLoad ==
    /\ directory \in SeqUpTo(Entries(LoadRows, MaxRows), MaxFiles)
    /\ pc = "loading"
    /\ idx = 0
    /\ file_names = <<>>
    /\ all_trades = EmptyDataFrame
    /\ TRADES_DF = EmptyDataFrame
    /\ request = NoRequest
    /\ response = NoResponse
    /\ call = NoCall
    /\ filtered_trades = NoFiltered
    /\ arr = <<>>
    /\ trade = NoTrade

NextLoad == SkipEntry \/ LoadFile \/ LoadFileError \/ FinishLoad

SpecLoad == InitLoad /\ [][NextLoad]_vars

---------------------------------------------------------------------------
(* filter_trades called directly *)

\* The records from_array makes of the sample rows.
TableRecords ==
    {from_array(a).value : a \in {RowFull, RowShort, RowLate, RowNullSymbol, RowNoDate}}

\* The tables load_all_trades can return: no file loaded (no columns), or
\* the columns and some records.
Tables ==
    {EmptyDataFrame} \cup {[columns |-> columns, rows |-> rows] : rows \in SeqUpTo(TableRecords, MaxTable)}

InitFilter ==
    /\ call \in [trades : Tables, start_date : DOMAIN DateText, end_date : DOMAIN DateText,
                 symbol : SymbolParams]
    /\ filtered_trades = NoFiltered
    /\ directory = <<>>
    /\ pc = "filter"
    /\ idx = 0
    /\ file_names = <<>>
    /\ all_trades = EmptyDataFrame
    /\ TRADES_DF = EmptyDataFrame
    /\ request = NoRequest
    /\ response = NoResponse
    /\ arr = <<>>
    /\ trade = NoTrade

FilterTrades ==
    /\ pc = "filter"
    /\ filtered_trades = NoFiltered
    /\ filtered_trades' = filter_trades(call.trades, call.start_date, call.end_date, call.symbol)
    /\ UNCHANGED <<directory, pc, idx, file_names, all_trades, TRADES_DF, request, response,
                   call, arr, trade>>

NextFilter == FilterTrades

SpecFilter == InitFilter /\ [][NextFilter]_vars

---------------------------------------------------------------------------
(* from_array called directly *)

OddValues == {None, Str("abc"), Str("7")}

\* The well-formed row cut to n elements, with the positions of m replaced.
RowWith(n, m) == [p \in 1..n |-> IF p \in DOMAIN m THEN m[p] ELSE RowFull[p]]

ArrInputs ==
    {RowWith(n, m) :
        n \in 0..Len(RowFull),
        m \in UNION {[P -> OddValues] :
                        P \in {Q \in SUBSET (1..Len(RowFull)) : Cardinality(Q) <= MaxOdd}}}

InitParse ==
    /\ arr \in ArrInputs
    /\ trade = NoTrade
    /\ directory = <<>>
    /\ pc = "parse"
    /\ idx = 0
    /\ file_names = <<>>
    /\ all_trades = EmptyDataFrame
    /\ TRADES_DF = EmptyDataFrame
    /\ request = NoRequest
    /\ response = NoResponse
    /\ call = NoCall
    /\ filtered_trades = NoFiltered

FromArray ==
    /\ pc = "parse"
    /\ trade = NoTrade
    /\ trade' = from_array(arr)
    /\ UNCHANGED <<directory, pc, idx, file_names, all_trades, TRADES_DF, request, response,
                   call, filtered_trades, arr>>

NextParse == FromArray

SpecParse == InitParse /\ [][NextParse]_vars

---------------------------------------------------------------------------
(* Properties *)

Authorised == request.api_key = API_KEY
ValidDates == request.startDate \in DOMAIN DateText /\ request.endDate \in DOMAIN DateText
Answered == pc = "serving" /\ response.outcome # "none"

IsNull(v) == v[1] \in {"None", "NaT"}

\* r is dated within [s, e], both ends included, and has the symbol sym when
\* sym is a non-empty string.
Matches(r, s, e, sym) ==
    /\ r.date[1] = "Timestamp"
    /\ DateText[s] <= r.date[2]
    /\ r.date[2] <= DateText[e]
    /\ (sym[1] = "str" /\ sym[2] # "" => r.symbol = sym)

MatchingRows(rows, s, e, sym) == SelectSeq(rows, LAMBDA r : Matches(r, s, e, sym))

\* C1: every call of filter_trades with valid dates returns exactly the
\* records of the table dated within [start_date, end_date], both ends
\* included, restricted to the symbol when a non-empty symbol is given and
\* to no symbol otherwise. Stated of the calls the handler makes on TRADES_DF.
C1_FilterReturnsRange ==
    Answered /\ Authorised /\ ValidDates =>
        /\ response.outcome = "return"
        /\ response.body = MatchingRows(TRADES_DF.rows, request.startDate, request.endDate,
                                        request.symbol)

\* The same, of the tables that have their columns (at least one file loaded):
\* on these filter_trades does return exactly the matching records.
FilterReturnsRangeGivenColumns ==
    filtered_trades.raised # "none" /\ call.trades.columns # {} =>
        /\ filtered_trades.raised = ""
        /\ filtered_trades.rows = MatchingRows(call.trades.rows, call.start_date, call.end_date,
                                               call.symbol)

\* C2: a request whose api_key is not the secret (an absent one included) ends
\* in 403 'Invalid API key' whatever the dates are; with the right key, a
\* startDate or endDate that is no date ends in 400; filter_trades is called
\* only when both checks passed.
C2_ChecksInOrder ==
    Answered =>
        /\ (~ Authorised =>
                /\ response.outcome = "HTTPException"
                /\ response.status_code = 403
                /\ response.detail[1] = "Invalid API key"
                /\ ~ response.filtered)
        /\ (Authorised /\ ~ ValidDates =>
                /\ response.outcome = "HTTPException"
                /\ response.status_code = 400
                /\ ~ response.filtered)
        /\ (response.filtered => Authorised /\ ValidDates)

\* A wrong or absent key together with a malformed date was answered 403.
C2_Witness ==
    /\ Answered
    /\ ~ Authorised
    /\ request.startDate \notin DOMAIN DateText
    /\ response.status_code = 403

\* The rows of the tables of the ".json" entries k.. of dir that load, in order.
RECURSIVE LoadedRows(_, _)
LoadedRows(dir, k) ==
    IF k > Len(dir) THEN <<>>
    ELSE (IF dir[k].json /\ load_trades_from_file(dir[k]).raised = ""
          THEN load_trades_from_file(dir[k]).df.rows
          ELSE <<>>) \o LoadedRows(dir, k + 1)

\* The ".json" entries of dir from k on, by position.
RECURSIVE JsonEntries(_, _)
JsonEntries(dir, k) ==
    IF k > Len(dir) THEN <<>>
    ELSE (IF dir[k].json THEN <<k>> ELSE <<>>) \o JsonEntries(dir, k + 1)

\* C3: a file that fails to load never aborts the aggregation: the loop
\* passes every entry, every ".json" file is tried, and the table returned is
\* the concatenation of the tables of the files that loaded, in enumeration
\* order, rows in source order, duplicates kept.
C3_FailureDoesNotAbort ==
    pc = "serving" =>
        /\ idx = Len(directory)
        /\ file_names = JsonEntries(directory, 1)
        /\ TRADES_DF.rows = LoadedRows(directory, 1)

\* A file failed, and a later file with rows was still loaded into the table.
C3_Witness ==
    /\ pc = "serving"
    /\ \E k \in 1..(Len(directory) - 1) :
          /\ directory[k].json
          /\ load_trades_from_file(directory[k]).raised # ""
          /\ directory[k + 1].json
          /\ load_trades_from_file(directory[k + 1]).raised = ""
          /\ Len(directory[k + 1].data) > 0
    /\ Len(TRADES_DF.rows) > 0

FieldAt ==
    <<"symbol", "date", "hour", "openbid", "highbid", "lowbid",
      "closebid", "openask", "highask", "lowask", "closeask", "totalticks">>

\* The element at position p of a is present, is not null, and the conversion
\* of its position rejects it (str and the coercing date parse reject nothing).
FailsConversion(a, p) ==
    /\ Len(a) >= p
    /\ a[p] # None
    /\ \/ p \in IntPositions /\ int_raises(a[p])
       \/ p \in FloatPositions /\ float_raises(a[p])

\* C4: for each of the 12 positions, an index beyond the row's length or a
\* null at a present index leaves the field null, with no error; from_array
\* raises only when a present non-null value fails its conversion.
C4_AbsentOrNullIsNull ==
    trade.raised # "none" =>
        /\ (trade.raised # "" => \E p \in 1..Len(FieldAt) : FailsConversion(arr, p))
        /\ (trade.raised = "" =>
                \A p \in 1..Len(FieldAt) :
                    (Len(arr) < p \/ arr[p] = None) => trade.value[FieldAt[p]] = None)

\* The same with the symbol set apart: a null symbol becomes the text "None",
\* and every other position behaves as C4 says.
FromArrayLenientExceptSymbol ==
    trade.raised # "none" =>
        /\ (trade.raised # "" <=> \E p \in 1..Len(FieldAt) : FailsConversion(arr, p))
        /\ (trade.raised = "" =>
                /\ \A p \in 2..Len(FieldAt) :
                      (Len(arr) < p \/ arr[p] = None) => trade.value[FieldAt[p]] = None
                /\ (Len(arr) < 1 => trade.value.symbol = None)
                /\ (Len(arr) >= 1 /\ arr[1] = None => trade.value.symbol = Str("None")))

\* C5: when filter_trades fails in an authorised request with valid dates,
\* the handler answers 500 with the detail 'Error filtering trades: <cause>',
\* and no exception leaves the handler.
C5_FilterFailureIs500 ==
    Answered /\ Authorised /\ ValidDates
      /\ filter_trades(TRADES_DF, request.startDate, request.endDate, request.symbol).raised # "" =>
        /\ response.outcome = "HTTPException"
        /\ response.status_code = 500
        /\ response.detail[1] = "Error filtering trades: "
        /\ response.detail[2] # ""
        /\ response.escaped = ""

\* C6: over every table load_all_trades produces, the one of a directory with
\* no loadable ".json" file included, and every valid date range, a symbol
\* that no record has yields an empty result, not an error.
C6_UnknownSymbolIsEmpty ==
    Answered /\ Authorised /\ ValidDates /\ truthy(request.symbol)
      /\ (\A i \in 1..Len(TRADES_DF.rows) : TRADES_DF.rows[i].symbol # request.symbol) =>
        /\ response.outcome = "return"
        /\ response.body = <<>>

\* C7: a record whose date is null is never in the result of filter_trades.
C7_NullDateNeverReturned ==
    filtered_trades.raised = "" =>
        \A i \in 1..Len(filtered_trades.rows) : ~ IsNull(filtered_trades.rows[i].date)

\* The table held a record without a date element and one whose date text
\* was coerced, and the call returned some records.
C7_Witness ==
    /\ filtered_trades.raised = ""
    /\ \E i \in 1..Len(call.trades.rows) : call.trades.rows[i].date = None
    /\ \E i \in 1..Len(call.trades.rows) : call.trades.rows[i].date = NaT
    /\ Len(filtered_trades.rows) > 0

\* C8: once loaded the table is never changed: whatever requests were served,
\* TRADES_DF is the table load_all_trades returned, and the answer to a
\* request is the one that table gives.
C8_TableNeverChanges ==
    pc = "serving" =>
        /\ TRADES_DF = all_trades
        /\ TRADES_DF.rows = LoadedRows(directory, 1)
        /\ (response.outcome # "none" => response = get_trades(all_trades, request))

\* A request returned some, not all, of the records of the table.
C8_Witness ==
    /\ Answered
    /\ response.outcome = "return"
    /\ 0 < Len(response.body)
    /\ Len(response.body) < Len(TRADES_DF.rows)

RECURSIVE IsSubsequence(_, _)
IsSubsequence(s, t) ==
    IF s = <<>> THEN TRUE
    ELSE IF t = <<>> THEN FALSE
    ELSE IF Head(s) = Head(t) THEN IsSubsequence(Tail(s), Tail(t))
    ELSE IsSubsequence(s, Tail(t))

Occurrences(r, s) == Cardinality({i \in 1..Len(s) : s[i] = r})

\* C9: the result of filter_trades is a subsequence of the table, and a
\* record that is in the result occurs in it as often as in the table.
C9_ResultIsSubsequence ==
    filtered_trades.raised = "" =>
        /\ IsSubsequence(filtered_trades.rows, call.trades.rows)
        /\ \A i \in 1..Len(filtered_trades.rows) :
              Occurrences(filtered_trades.rows[i], filtered_trades.rows)
                  = Occurrences(filtered_trades.rows[i], call.trades.rows)

\* The result holds one record twice and another record after it, and the
\* table holds more.
C9_Witness ==
    /\ filtered_trades.raised = ""
    /\ Len(filtered_trades.rows) < Len(call.trades.rows)
    /\ \E i, j \in 1..Len(filtered_trades.rows) :
          i < j /\ filtered_trades.rows[i] = filtered_trades.rows[j]
    /\ \E i, j \in 1..Len(filtered_trades.rows) :
          i < j /\ filtered_trades.rows[i] # filtered_trades.rows[j]

\* What one entry gives the table: every row of its datatable.data, each
\* converted by from_array, or nothing; nothing as soon as one row raises.
AllOrNothing(f) ==
    IF /\ f.json
       /\ f.kind = "data"
       /\ \A j \in 1..Len(f.data) : ~ (\E p \in 1..Len(FieldAt) : FailsConversion(f.data[j], p))
    THEN [j \in 1..Len(f.data) |-> from_array_value(f.data[j])]
    ELSE <<>>

RECURSIVE AllOrNothingRows(_, _)
AllOrNothingRows(dir, n) ==
    IF n = 0 THEN <<>> ELSE AllOrNothingRows(dir, n - 1) \o AllOrNothing(dir[n])

\* C10: loading is all-or-nothing per file: at every point of the load the
\* table is made of, for each ".json" file passed, all its rows or none of
\* them, and none when one of its rows fails a conversion.
C10_AllOrNothingPerFile ==
    all_trades.rows = AllOrNothingRows(directory, idx)

\* A file with a well-formed row and a row that fails gave nothing, while
\* another file was loaded.
C10_Witness ==
    /\ pc = "serving"
    /\ \E k \in 1..Len(directory) :
          /\ directory[k].json
          /\ \E j \in 1..Len(directory[k].data) : from_array(directory[k].data[j]).raised # ""
          /\ \E j \in 1..Len(directory[k].data) : from_array(directory[k].data[j]).raised = ""
    /\ Len(TRADES_DF.rows) > 0

====
